---- MODULE Spec2Model ----
(***************************************************************************)
(* A model of the FCS 1.2 searchRetrieve handler of mquery-fcs             *)
(* (FCSSubHandlerV12.searchRetrieve): parameter validation, the publish    *)
(* loop over the selected corpora, the index-ordered collection of the     *)
(* worker replies, the post-aggregation classification and the round-robin *)
(* merge of the per-corpus result lines.  The workers and the HTTP layer's *)
(* deadline are the environment.                                           *)
(***************************************************************************)
EXTENDS Integers, Sequences, FiniteSets, TLC

(***************************************************************************)
(* Bounds of the model.                                                    *)
(***************************************************************************)
\* the largest number of corpora the registry holds
MaxCorpora == 2
\* the largest number of rows one worker reply carries
MaxRows == 2
\* the largest startRecord on the wire
MaxStartRecord == 2
\* the largest maximumRecords on the wire
MaxPageSize == 2
\* a.corporaConf.MaximumRecords, the configured default page size
ConfMaximumRecords == 2

(***************************************************************************)
(* Status codes and diagnostics.                                           *)
(***************************************************************************)
StatusOK == 200
StatusInternalServerError == 500
ConformantStatusBadRequest == 400
ConformantUnprocessableEntity == 422
ConformandGeneralServerError == 500

\* mango.ErrRowsRangeOutOfConc.Error(), the sentinel detected textually
ErrRowsRangeOutOfConc == "rows range out of conc"
\* some other application error a worker may report
ErrWorkerFailure == "worker failure"
\* the error of a reply that cannot be deserialized
ErrDeserialize == "failed to deserialize"
\* the error of a failed PublishQuery
ErrPublish == "publish failed"

Absent == "<absent>"

\* the URL keys SearchRetrArg.Validate accepts that the model uses
SearchRetrArgQuery == "query"
SearchRetrStartRecord == "startRecord"
SearchMaximumRecords == "maximumRecords"
SearchRetrArgFCSContext == "x-fcs-context"

KnownArgs ==
    {SearchRetrArgQuery, SearchRetrStartRecord, SearchMaximumRecords,
     SearchRetrArgFCSContext}

(***************************************************************************)
(* Helpers.                                                                *)
(***************************************************************************)
Range(s) == {s[i] : i \in 1..Len(s)}

(***************************************************************************)
(* The resource registry: an ordered list of corpus names, immutable       *)
(* after startup.                                                          *)
(***************************************************************************)
CorpusPool == <<"a", "b", "c", "d", "e">>

Registries == {SubSeq(CorpusPool, 1, n) : n \in 0..MaxCorpora}

\* Resources.GetResource(name): the error result
GetResourceFails(reg, name) == name \notin Range(reg)

(***************************************************************************)
(* Raw parameter values and their conversions.                             *)
(***************************************************************************)
\* decimal strings and the integers strconv.Atoi gives for them
NumStr == <<"-1", "0", "1", "2", "3", "4", "5">>

NumVal(i) == i - 2

\* strconv.Atoi: [ok |-> parsed, val |-> value]
Atoi(s) ==
    IF \E i \in 1..Len(NumStr) : NumStr[i] = s
    THEN [ok |-> TRUE, val |-> NumVal(CHOOSE i \in 1..Len(NumStr) : NumStr[i] = s)]
    ELSE [ok |-> FALSE, val |-> 0]

\* the raw values a numeric parameter takes in the model: missing, empty,
\* not a number, and the decimal strings of 0..max
RawNumbers(max) ==
    {Absent, "", "abc"} \cup {NumStr[i] : i \in 2..(max + 2)}

\* the raw values of x-fcs-context and what strings.Split(value, ",") gives
ContextValues == {Absent, "b", "b,a", "zz", "query"}

Split(v) ==
    CASE v = "b,a" -> <<"b", "a">>
      [] v = "a" -> <<"a">>
      [] OTHER -> <<v>>

\* the raw value the URL gives for a known key, Absent when the key is missing
Param(req, key) ==
    CASE key = SearchRetrArgQuery -> req.query
      [] key = SearchRetrStartRecord -> req.startRecord
      [] key = SearchMaximumRecords -> req.maximumRecords
      [] key = SearchRetrArgFCSContext -> req.context
      [] OTHER -> Absent

\* ctx.Query(key): "" when the key is absent
Query(req, key) == IF Param(req, key) = Absent THEN "" ELSE Param(req, key)

\* ctx.DefaultQuery(key, dflt)
DefaultQuery(req, key, dflt) ==
    IF Param(req, key) = Absent THEN dflt ELSE Param(req, key)

\* the keys of ctx.Request.URL.Query()
UrlKeys(req) == {k \in KnownArgs : Param(req, k) # Absent} \cup req.extraKeys

\* ctx.Request.URL.Query().Has(key)
Has(req, key) == key \in UrlKeys(req)

Requests ==
    [query : {Absent, "cat"},
     startRecord : RawNumbers(MaxStartRecord),
     maximumRecords : RawNumbers(MaxPageSize),
     context : ContextValues,
     extraKeys : {{}, {"bogus"}, {"bogus", "junk"}}]

\* the attribute a query may name that a corpus does not have, the text of
\* the error Generate() then leaves in Errors(), and strings.Contains on the
\* texts of the model
OffendingIdentifier == "foo"

SemanticErrorText == "unknown attribute foo"

Contains(text, word) ==
    text = word \/ (text = SemanticErrorText /\ word = OffendingIdentifier)

(***************************************************************************)
(* Translation: what basic.ParseQuery and AST.Generate give for the        *)
(* request's query against one corpus.                                     *)
(***************************************************************************)
TranslationOutcomes == {"ok", "parse_error", "semantic_error"}

(***************************************************************************)
(* State.                                                                  *)
(***************************************************************************)
VARIABLES
    registry,        \* a.corporaConf.Resources: the configured corpora
    request,         \* the URL parameters of the request
    translation,     \* per corpus: the outcome of translating the query
    pc,              \* the handler's position
    startRecord,     \* the parsed startRecord
    maximumRecords,  \* the page size K
    corpora,         \* the selected corpora
    jobs,            \* the jobs published to the queue, in publish order
    waits,           \* the reply handles, parallel to corpora
    replies,         \* per published job: the worker's reply, or NoReply
    recvLog,         \* the handles received from, in receive order
    fromResource,    \* the round-robin selector
    status,          \* the returned HTTP status (0 while running)
    diagnostics,     \* fcsResponse.General errors
    results,         \* fcsResponse.SearchRetrieve.Results
    deadlineFired,   \* the HTTP layer's overall deadline has fired
    outOfOrder,      \* history: some worker answered before one of lower index
    proc             \* the process around the handler: main() and its goroutines

vars ==
    <<registry, request, translation, pc, startRecord, maximumRecords,
      corpora, jobs, waits, replies, recvLog, fromResource, status,
      diagnostics, results, deadlineFired, outOfOrder, proc>>

\* the process while it serves requests: TestConnection has returned, main
\* is inside runApiServer, the signal goroutine waits on syscallChan
ServingProc ==
    [action |-> "server", mainPc |-> "running", sigPc |-> "recv",
     evt |-> "none", syscallChan |-> <<>>, listenPc |-> "serving",
     cancelSent |-> 0, cancelClosed |-> 0, exitSent |-> 0, exitClosed |-> 0,
     signalsLeft |-> 0]

NoReply == [kind |-> "none"]

NoSel == [items |-> <<>>, g |-> 0, curr |-> 0, limit |-> 0]

Init ==
    /\ registry \in Registries
    /\ request \in Requests
    /\ translation \in [Range(registry) -> TranslationOutcomes]
    /\ pc = "validate"
    /\ startRecord = 0
    /\ maximumRecords = 0
    /\ corpora = <<>>
    /\ jobs = <<>>
    /\ waits = <<>>
    /\ replies = <<>>
    /\ recvLog = <<>>
    /\ fromResource = NoSel
    /\ status = 0
    /\ diagnostics = <<>>
    /\ results = <<>>
    /\ deadlineFired = FALSE
    /\ outOfOrder = FALSE
    /\ proc = ServingProc

FCSError(code, ident) == [code |-> code, ident |-> ident]

\* fcsResponse.General.AddError(e); return st
Fail(code, ident, st) ==
    /\ diagnostics' = Append(diagnostics, FCSError(code, ident))
    /\ status' = st
    /\ pc' = "done"

(***************************************************************************)
(* Parameter validation, lines 68-169.                                     *)
(***************************************************************************)
\* a variant of InvalidKeys for a handler that does not check the keys
InvalidKeys_Unchecked(req) == {}

\* the keys of the URL that SearchRetrArg(key).Validate() rejects
InvalidKeys(req) == {k \in UrlKeys(req) : k \notin KnownArgs}

\* a variant of ParsedStartRecord that falls back to 1 when the value does
\* not parse
ParsedStartRecord_Lenient(req) ==
    IF Atoi(DefaultQuery(req, SearchRetrStartRecord, "1")).ok
    THEN Atoi(DefaultQuery(req, SearchRetrStartRecord, "1"))
    ELSE [ok |-> TRUE, val |-> 1]

\* line 92: strconv.Atoi(ctx.DefaultQuery("startRecord", "1"))
ParsedStartRecord(req) == Atoi(DefaultQuery(req, SearchRetrStartRecord, "1"))

\* lines 111-122: the configured value unless a non-empty value is supplied
ParsedMaximumRecords(req) ==
    IF Len(Query(req, SearchMaximumRecords)) > 0
    THEN Atoi(Query(req, SearchMaximumRecords))
    ELSE [ok |-> TRUE, val |-> ConfMaximumRecords]

\* lines 132-135: all corpora unless the URL has a key named by the value of
\* x-fcs-context
SelectedCorpora(reg, req) ==
    IF Has(req, Query(req, SearchRetrArgFCSContext))
    THEN Split(Query(req, SearchRetrArgFCSContext))
    ELSE reg

\* a variant of PlannerOffset that hands the 1-based startRecord on unchanged
PlannerOffset_NoShift(sr) == sr

\* a variant of PlannerOffset that shifts the 1-based startRecord twice
PlannerOffset_ShiftedTwice(sr) == sr - 2

\* line 169: the offset handed to the range planner
PlannerOffset(sr) == sr - 1

\* query.CalculatePartialRanges(corpora, from, maxItems): one entry per corpus,
\* in corpus-list order, each with the same window
CalculatePartialRanges(cs, from, maxItems) ==
    [i \in 1..Len(cs) |-> [Rsc |-> cs[i], From |-> from, MaxItems |-> maxItems]]

Validate ==
    /\ pc = "validate"
    /\ UNCHANGED <<registry, request, translation, jobs, waits, replies,
                   recvLog, fromResource, results, deadlineFired, outOfOrder>>
    /\ IF InvalidKeys(request) # {}
       THEN /\ \E key \in InvalidKeys(request) :
                 Fail("DCUnsupportedParameter", key, ConformantStatusBadRequest)
            /\ UNCHANGED <<startRecord, maximumRecords, corpora>>
       ELSE IF Len(Query(request, SearchRetrArgQuery)) = 0
       THEN /\ Fail("DCMandatoryParameterNotSupplied", "fcs_query",
                    ConformantStatusBadRequest)
            /\ UNCHANGED <<startRecord, maximumRecords, corpora>>
       ELSE IF ~ParsedStartRecord(request).ok \/ ParsedStartRecord(request).val < 1
       THEN /\ Fail("DCUnsupportedParameterValue", SearchRetrStartRecord,
                    ConformantUnprocessableEntity)
            /\ UNCHANGED <<startRecord, maximumRecords, corpora>>
       ELSE IF ~ParsedMaximumRecords(request).ok
               \/ ParsedMaximumRecords(request).val < 1
       THEN /\ Fail("DCUnsupportedParameterValue", SearchMaximumRecords,
                    ConformantUnprocessableEntity)
            /\ startRecord' = ParsedStartRecord(request).val
            /\ UNCHANGED <<maximumRecords, corpora>>
       ELSE IF Len(SelectedCorpora(registry, request)) = 0
               \/ \E i \in 1..Len(SelectedCorpora(registry, request)) :
                     GetResourceFails(registry, SelectedCorpora(registry, request)[i])
       THEN /\ Fail("DCUnsupportedParameterValue", SearchRetrArgFCSContext,
                    ConformantStatusBadRequest)
            /\ startRecord' = ParsedStartRecord(request).val
            /\ maximumRecords' = ParsedMaximumRecords(request).val
            /\ corpora' = SelectedCorpora(registry, request)
       ELSE /\ startRecord' = ParsedStartRecord(request).val
            /\ maximumRecords' = ParsedMaximumRecords(request).val
            /\ corpora' = SelectedCorpora(registry, request)
            /\ pc' = "publish"
            /\ UNCHANGED <<status, diagnostics>>
    /\ UNCHANGED proc

(***************************************************************************)
(* The round-robin selector (result.RoundRobinLineSel), after section 4.5  *)
(* of the specification: per corpus a row list, a row index and an error   *)
(* slot, and a global cursor g.                                            *)
(***************************************************************************)
NewRoundRobinLineSel(limit, cs) ==
    [items |-> [i \in 1..Len(cs) |->
                   [name |-> cs[i], lines |-> <<>>, idx |-> 0, err |-> ""]],
     g |-> 0, curr |-> 0, limit |-> limit]

\* the error slot of one corpus: none | outOfRange | fatal
ErrKind(e) ==
    IF e = "" THEN "none"
    ELSE IF e = ErrRowsRangeOutOfConc THEN "outOfRange" ELSE "fatal"

\* RscSetErrorAt(i, err), i counted from 1 here
RscSetErrorAt(sel, i, e) ==
    [sel EXCEPT !.items = [k \in DOMAIN sel.items |->
        IF k = i THEN [sel.items[k] EXCEPT !.err = e] ELSE sel.items[k]]]

\* SetRscLines(name, result): the row list of the corpus of that name
SetRscLines(sel, name, lines) ==
    [sel EXCEPT !.items = [k \in DOMAIN sel.items |->
        IF sel.items[k].name = name
        THEN [sel.items[k] EXCEPT !.lines = lines] ELSE sel.items[k]]]

AllHasOutOfRangeError(sel) ==
    \A k \in DOMAIN sel.items : ErrKind(sel.items[k].err) = "outOfRange"

HasFatalError(sel) ==
    \E k \in DOMAIN sel.items : ErrKind(sel.items[k].err) = "fatal"

\* the lowest-index error ("" when there is none)
GetFirstError(sel) ==
    LET withErr == {k \in DOMAIN sel.items : sel.items[k].err # ""}
    IN IF withErr = {} THEN ""
       ELSE sel.items[CHOOSE k \in withErr : \A m \in withErr : k <= m].err

\* the offsets 0..N-1 from the cursor at which a corpus still has a row
NextOffsets(sel) ==
    {k \in 0..(Len(sel.items) - 1) :
        LET j == ((sel.g + k) % Len(sel.items)) + 1
        IN sel.items[j].idx < Len(sel.items[j].lines)}

\* Next(): [ok |-> the returned flag, sel |-> the selector afterwards]
RRNext(sel) ==
    IF NextOffsets(sel) = {} THEN [ok |-> FALSE, sel |-> sel]
    ELSE LET k0 == CHOOSE k \in NextOffsets(sel) :
                       \A m \in NextOffsets(sel) : k <= m
             found == (sel.g + k0) % Len(sel.items)
         IN [ok |-> TRUE,
             sel |-> [sel EXCEPT !.curr = found + 1,
                                 !.g = (found + 1) % Len(sel.items),
                                 !.items[found + 1].idx = @ + 1]]

CurrRscName(sel) == sel.items[sel.curr].name

CurrLine(sel) == sel.items[sel.curr].lines[sel.items[sel.curr].idx]

(***************************************************************************)
(* The publish loop, lines 172-220: one iteration per action.              *)
(***************************************************************************)
Ranges == CalculatePartialRanges(corpora, PlannerOffset(startRecord), maximumRecords)

\* lines 189-195: the job payload of one range entry
ConcExampleArgs(rng) ==
    [rsc |-> rng.Rsc, startLine |-> rng.From, maxItems |-> maximumRecords]

\* a variant of AfterPublish that awaits each job right after publishing it
AfterPublish_Sequential(i) == "collect"

\* where the handler goes after publishing job i: the next iteration, or past
\* the loop to the collection of the replies
AfterPublish(i) == IF i < Len(corpora) THEN "publish" ELSE "collect"

\* a variant of TranslationError that reports every failed translation as a
\* query that cannot be processed
TranslationError_CannotProcess(rsc) ==
    IF GetResourceFails(registry, rsc)
    THEN FCSError("DCGeneralSystemError", "resource not found")
    ELSE FCSError("DCQueryCannotProcess", SearchRetrArgQuery)

\* lines 39-65 and 175-188: the diagnostic of a failed translation of entry i
TranslationError(rsc) ==
    IF GetResourceFails(registry, rsc)
    THEN FCSError("DCGeneralSystemError", "resource not found")
    ELSE IF translation[rsc] = "parse_error"
    THEN FCSError("DCQuerySyntaxError", Query(request, SearchRetrArgQuery))
    ELSE FCSError("DCQueryCannotProcess", SearchRetrArgQuery)

PublishAbort ==
    /\ pc = "publish"
    /\ LET i == Len(waits) + 1
           rng == Ranges[i]
       IN /\ GetResourceFails(registry, rng.Rsc) \/ translation[rng.Rsc] # "ok"
          /\ Fail(TranslationError(rng.Rsc).code, TranslationError(rng.Rsc).ident,
                  ConformantUnprocessableEntity)
    /\ UNCHANGED <<registry, request, translation, startRecord, maximumRecords,
                   corpora, jobs, waits, replies, recvLog, fromResource,
                   results, deadlineFired, outOfOrder>>
    /\ UNCHANGED proc

\* a.radapter.PublishQuery returns an error
PublishFails ==
    /\ pc = "publish"
    /\ LET i == Len(waits) + 1
           rng == Ranges[i]
       IN /\ ~GetResourceFails(registry, rng.Rsc)
          /\ translation[rng.Rsc] = "ok"
          /\ Fail("DCGeneralSystemError", ErrPublish, StatusInternalServerError)
    /\ UNCHANGED <<registry, request, translation, startRecord, maximumRecords,
                   corpora, jobs, waits, replies, recvLog, fromResource,
                   results, deadlineFired, outOfOrder>>
    /\ UNCHANGED proc

PublishStep ==
    /\ pc = "publish"
    /\ LET i == Len(waits) + 1
           rng == Ranges[i]
       IN /\ ~GetResourceFails(registry, rng.Rsc)
          /\ translation[rng.Rsc] = "ok"
          /\ jobs' = Append(jobs, ConcExampleArgs(rng))
          /\ replies' = Append(replies, NoReply)
          /\ waits' = Append(waits, Len(jobs) + 1)
          /\ pc' = AfterPublish(i)
          /\ fromResource' =
                IF i < Len(corpora) THEN fromResource
                ELSE NewRoundRobinLineSel(maximumRecords, corpora)
    /\ UNCHANGED <<registry, request, translation, startRecord, maximumRecords,
                   corpora, recvLog, status, diagnostics, results, deadlineFired, outOfOrder>>
    /\ UNCHANGED proc

(***************************************************************************)
(* The workers: each published job is answered at most once, at any time.  *)
(***************************************************************************)
\* the k-th row of a corpus's result set
Line(rsc, k) == [rsc |-> rsc, n |-> k]

\* what a worker may answer to a job: rows, the out-of-range sentinel, another
\* application error, or something that does not deserialize
ReplyContents(job) ==
    {[kind |-> "result", err |-> "", lines |-> [k \in 1..n |-> Line(job.rsc, k)]] :
        n \in 0..MaxRows}
    \cup {[kind |-> "result", err |-> e, lines |-> <<>>] :
        e \in {ErrRowsRangeOutOfConc, ErrWorkerFailure}}
    \cup {[kind |-> "garbage", err |-> "", lines |-> <<>>]}

WorkerReply ==
    /\ \E h \in DOMAIN replies :
          /\ replies[h] = NoReply
          /\ \E r \in ReplyContents(jobs[h]) :
                replies' = [replies EXCEPT ![h] = r]
          /\ outOfOrder' = (outOfOrder \/ \E k \in 1..(h - 1) : replies[k] = NoReply)
    /\ UNCHANGED <<registry, request, translation, pc, startRecord,
                   maximumRecords, corpora, jobs, waits, recvLog, fromResource,
                   status, diagnostics, results, deadlineFired>>
    /\ UNCHANGED proc

\* the overall deadline of the request, provided by the HTTP layer
DeadlineFires ==
    /\ pc # "done"
    /\ ~deadlineFired
    /\ deadlineFired' = TRUE
    /\ UNCHANGED <<registry, request, translation, pc, startRecord,
                   maximumRecords, corpora, jobs, waits, replies, recvLog,
                   fromResource, status, diagnostics, results, outOfOrder>>
    /\ UNCHANGED proc

(***************************************************************************)
(* The collection of the replies, lines 222-247: one receive per action.   *)
(***************************************************************************)
HasReply(h) == h \in DOMAIN replies /\ replies[h] # NoReply

\* a variant of RecvCandidates that receives from whichever handle is ready
RecvCandidates_AnyReady == {i \in DOMAIN waits : waits[i] \notin Range(recvLog)}

\* the index the loop of line 222 receives at next
RecvCandidates == {Len(recvLog) + 1}

\* where the handler goes after storing reply i
AfterCollect(i) == IF i < Len(corpora) THEN "collect" ELSE "classify"

\* rdb.DeserializeConcExampleResult(rawResult): the error result
DeserializeFails(raw) == raw.kind # "result"

\* a variant of IsFatalReply that lets every application error abort
IsFatalReply_AnyError(raw) == raw.err # ""

\* lines 233-245: the reply aborts the request
IsFatalReply(raw) == raw.err # "" /\ raw.err # ErrRowsRangeOutOfConc

\* a variant of FatalReplyStatus that answers 200 with the diagnostic attached
FatalReplyStatus_PartialSuccess == StatusOK

\* a variant of FatalReplyStatus that answers 422
FatalReplyStatus_Unprocessable == ConformantUnprocessableEntity

\* line 243: the status returned for a fatal reply
FatalReplyStatus == StatusInternalServerError

\* a variant of StoreReply that does not record the reply's error
StoreReply_NoError(sel, i, raw) == SetRscLines(sel, corpora[i], raw.lines)

\* a variant of StoreReply that files every reply under the first corpus
StoreReply_FirstCorpus(sel, i, raw) ==
    SetRscLines(IF raw.err # "" THEN RscSetErrorAt(sel, i, raw.err) ELSE sel,
                corpora[1], raw.lines)

\* lines 235 and 246: the selector after reply i is stored
StoreReply(sel, i, raw) ==
    SetRscLines(IF raw.err # "" THEN RscSetErrorAt(sel, i, raw.err) ELSE sel,
                corpora[i], raw.lines)

CollectStep ==
    /\ pc = "collect"
    /\ \E i \in RecvCandidates :
          /\ i \in DOMAIN waits
          /\ HasReply(waits[i])
          /\ ~DeserializeFails(replies[waits[i]])
          /\ ~IsFatalReply(replies[waits[i]])
          /\ recvLog' = Append(recvLog, waits[i])
          /\ fromResource' = StoreReply(fromResource, i, replies[waits[i]])
          /\ pc' = AfterCollect(Len(recvLog) + 1)
    /\ UNCHANGED <<registry, request, translation, startRecord, maximumRecords,
                   corpora, jobs, waits, replies, status, diagnostics, results,
                   deadlineFired, outOfOrder>>
    /\ UNCHANGED proc

CollectAbort ==
    /\ pc = "collect"
    /\ \E i \in RecvCandidates :
          /\ i \in DOMAIN waits
          /\ HasReply(waits[i])
          /\ DeserializeFails(replies[waits[i]]) \/ IsFatalReply(replies[waits[i]])
          /\ recvLog' = Append(recvLog, waits[i])
          /\ IF DeserializeFails(replies[waits[i]])
             THEN Fail("DCGeneralSystemError", ErrDeserialize,
                       StatusInternalServerError)
             ELSE Fail("DCQueryCannotProcess", replies[waits[i]].err,
                       FatalReplyStatus)
    /\ UNCHANGED <<registry, request, translation, startRecord, maximumRecords,
                   corpora, jobs, waits, replies, fromResource, results,
                   deadlineFired, outOfOrder>>
    /\ UNCHANGED proc

(***************************************************************************)
(* Post-aggregation classification, lines 248-266.                         *)
(***************************************************************************)
\* a variant of ClassifyIdent that names the startRecord parameter
ClassifyIdent_ParameterName(sel) == SearchRetrStartRecord

\* lines 252 and 259: fromResource.GetFirstError().Error()
ClassifyIdent(sel) == GetFirstError(sel)

ClassifyAbort ==
    /\ pc = "classify"
    /\ AllHasOutOfRangeError(fromResource) \/ HasFatalError(fromResource)
    /\ IF AllHasOutOfRangeError(fromResource)
       THEN Fail("DCFirstRecordPosOutOfRange", ClassifyIdent(fromResource),
                 ConformantUnprocessableEntity)
       ELSE Fail("DCQueryCannotProcess", ClassifyIdent(fromResource),
                 ConformandGeneralServerError)
    /\ UNCHANGED <<registry, request, translation, startRecord, maximumRecords,
                   corpora, jobs, waits, replies, recvLog, fromResource,
                   results, deadlineFired, outOfOrder>>
    /\ UNCHANGED proc

ClassifyOK ==
    /\ pc = "classify"
    /\ ~AllHasOutOfRangeError(fromResource)
    /\ ~HasFatalError(fromResource)
    /\ results' = <<>>
    /\ pc' = "merge"
    /\ UNCHANGED <<registry, request, translation, startRecord, maximumRecords,
                   corpora, jobs, waits, replies, recvLog, fromResource,
                   status, diagnostics, deadlineFired, outOfOrder>>
    /\ UNCHANGED proc

(***************************************************************************)
(* The merge loop, lines 268-296: one iteration per action.                *)
(***************************************************************************)
\* a variant of MergeContinues with an off-by-one loop bound
MergeContinues_OffByOne ==
    Len(results) <= maximumRecords /\ RRNext(fromResource).ok

\* a variant of MergeContinues that leaves the loop one row short of K
MergeContinues_StopsEarly ==
    Len(results) + 1 < maximumRecords /\ RRNext(fromResource).ok

\* line 268: the loop condition
MergeContinues == Len(results) < maximumRecords /\ RRNext(fromResource).ok

\* a variant of RowPosition counting from 0
RowPosition_ZeroBased == Len(results)

\* line 280: the position of the row appended next
RowPosition == Len(results) + 1

\* a variant of FCSSearchRow that always takes the current corpus's first line
FCSSearchRow_FirstLine(sel) ==
    [Position |-> RowPosition, PID |-> CurrRscName(sel),
     line |-> sel.items[sel.curr].lines[1]]

\* lines 279-293: the row built from the selector's current line
FCSSearchRow(sel) ==
    [Position |-> RowPosition, PID |-> CurrRscName(sel), line |-> CurrLine(sel)]

MergeStep ==
    /\ pc = "merge"
    /\ MergeContinues
    /\ fromResource' = RRNext(fromResource).sel
    /\ IF GetResourceFails(registry, CurrRscName(fromResource'))
       THEN /\ Fail("DCGeneralSystemError", "resource not found",
                    StatusInternalServerError)
            /\ UNCHANGED results
       ELSE /\ results' = Append(results, FCSSearchRow(fromResource'))
            /\ UNCHANGED <<pc, status, diagnostics>>
    /\ UNCHANGED <<registry, request, translation, startRecord, maximumRecords,
                   corpora, jobs, waits, replies, recvLog, deadlineFired, outOfOrder>>
    /\ UNCHANGED proc

MergeDone ==
    /\ pc = "merge"
    /\ ~MergeContinues
    /\ status' = StatusOK
    /\ pc' = "done"
    /\ UNCHANGED <<registry, request, translation, startRecord, maximumRecords,
                   corpora, jobs, waits, replies, recvLog, fromResource,
                   diagnostics, results, deadlineFired, outOfOrder>>
    /\ UNCHANGED proc

\* the steps of the request's own task
HandlerNext ==
    \/ Validate
    \/ PublishAbort
    \/ PublishFails
    \/ PublishStep
    \/ CollectStep
    \/ CollectAbort
    \/ ClassifyAbort
    \/ ClassifyOK
    \/ MergeStep
    \/ MergeDone

Next ==
    \/ HandlerNext
    \/ WorkerReply
    \/ DeadlineFires


Spec == Init /\ [][Next]_vars

\* the request's task keeps running while it has a step to take; nothing
\* obliges a worker ever to answer
FairSpec == Init /\ [][Next]_vars /\ WF_vars(HandlerNext)

(***************************************************************************)
(* The merge on its own.  The handler is entered after the collect loop    *)
(* (line 264) for requests over up to SelMaxCorpora corpora whose workers  *)
(* answered with up to SelMaxRows rows or with the out-of-range sentinel,  *)
(* and a page size of up to SelMaxPage: the states lines 172-263 leave     *)
(* behind, with bounds large enough for drains of several rounds.          *)
(***************************************************************************)
SelMaxCorpora == 3
SelMaxRows == 3
SelMaxPage == 4

\* the reply of a worker holding cnt rows for the job; cnt = -1 is the
\* out-of-range sentinel
SelReply(job, cnt) ==
    IF cnt < 0
    THEN [kind |-> "result", err |-> ErrRowsRangeOutOfConc, lines |-> <<>>]
    ELSE [kind |-> "result", err |-> "", lines |-> [k \in 1..cnt |-> Line(job.rsc, k)]]

\* lines 222-247 run over all the replies: the selector the collect loop
\* leaves behind
RECURSIVE Collected(_, _, _)
Collected(i, sel, reps) ==
    IF i > Len(reps) THEN sel
    ELSE Collected(i + 1, StoreReply(sel, i, reps[i]), reps)

SelInit ==
    \E n \in 1..SelMaxCorpora, k \in 1..SelMaxPage :
      \E cnt \in [1..n -> -1..SelMaxRows] :
        /\ \E i \in 1..n : cnt[i] >= 0
        /\ registry = SubSeq(CorpusPool, 1, n)
        /\ request = [query |-> "cat", startRecord |-> Absent,
                      maximumRecords |-> NumStr[k + 2], context |-> Absent,
                      extraKeys |-> {}]
        /\ translation = [c \in Range(registry) |-> "ok"]
        /\ pc = "merge"
        /\ startRecord = 1
        /\ maximumRecords = k
        /\ corpora = registry
        /\ jobs = [i \in 1..n |-> ConcExampleArgs(Ranges[i])]
        /\ waits = [i \in 1..n |-> i]
        /\ replies = [i \in 1..n |-> SelReply(jobs[i], cnt[i])]
        /\ recvLog = waits
        /\ fromResource = Collected(1, NewRoundRobinLineSel(maximumRecords, corpora),
                                    replies)
        /\ status = 0
        /\ diagnostics = <<>>
        /\ results = <<>>
        /\ deadlineFired = FALSE
        /\ outOfOrder = FALSE
        /\ proc = ServingProc

SelNext ==
    \/ MergeStep
    \/ MergeDone

SelSpec == SelInit /\ [][SelNext]_vars

\* the request's task keeps running while it has a step to take
SelFairSpec == SelInit /\ [][SelNext]_vars /\ WF_vars(SelNext)

(***************************************************************************)
(* main(): start-up and shutdown.  Three threads of control: main itself   *)
(* (TestConnection, then runApiServer or runWorker), the signal goroutine  *)
(* of main, and the ListenAndServe goroutine of runApiServer.  No request  *)
(* is in flight; the handler's variables stay as they are.                 *)
(***************************************************************************)
MaxSignals == 2

\* signal.Notify(syscallChan, os.Interrupt) and (syscallChan, syscall.SIGTERM)
Signals == {"SIGINT", "SIGTERM"}

\* syscallChan := make(chan os.Signal, 1)
SyscallChanCap == 1

\* log.Fatal or the return of main ends the process and all its goroutines
Alive == proc.mainPc \notin {"fatal", "exited"}

hvars ==
    <<registry, request, translation, pc, startRecord, maximumRecords,
      corpora, jobs, waits, replies, recvLog, fromResource, status,
      diagnostics, results, deadlineFired, outOfOrder>>

MainInit ==
    /\ registry = <<>>
    /\ request = [query |-> Absent, startRecord |-> Absent,
                  maximumRecords |-> Absent, context |-> Absent, extraKeys |-> {}]
    /\ translation = <<>>
    /\ pc = "idle"
    /\ startRecord = 0
    /\ maximumRecords = 0
    /\ corpora = <<>>
    /\ jobs = <<>>
    /\ waits = <<>>
    /\ replies = <<>>
    /\ recvLog = <<>>
    /\ fromResource = NoSel
    /\ status = 0
    /\ diagnostics = <<>>
    /\ results = <<>>
    /\ deadlineFired = FALSE
    /\ outOfOrder = FALSE
    /\ \E a \in {"server", "worker"} :
          proc = [action |-> a, mainPc |-> "testConnection", sigPc |-> "recv",
                  evt |-> "none", syscallChan |-> <<>>, listenPc |-> "off",
                  cancelSent |-> 0, cancelClosed |-> 0,
                  exitSent |-> 0, exitClosed |-> 0,
                  signalsLeft |-> MaxSignals]

\* the operating system delivers an interrupt or SIGTERM: the runtime sends
\* on syscallChan without blocking and drops the signal when the buffer is full
OsSignal ==
    /\ Alive
    /\ proc.signalsLeft > 0
    /\ \E sg \in Signals :
          proc' = [proc EXCEPT
                     !.signalsLeft = @ - 1,
                     !.syscallChan = IF Len(@) < SyscallChanCap
                                     THEN Append(@, sg) ELSE @]
    /\ UNCHANGED hvars

\* evt := <-syscallChan
SigReceive ==
    /\ Alive
    /\ proc.sigPc = "recv"
    /\ proc.syscallChan # <<>>
    /\ proc' = [proc EXCEPT !.evt = Head(proc.syscallChan),
                            !.syscallChan = Tail(@),
                            !.sigPc = "sendCancel"]
    /\ UNCHANGED hvars

\* where main goes when TestConnection returns nil: into runApiServer, which
\* starts the ListenAndServe goroutine, or into runWorker
AfterTestConnection(p) ==
    [p EXCEPT !.mainPc = "running",
              !.listenPc = IF p.action = "server" THEN "serving" ELSE "off"]

\* testConnCancel <- true meets the receive inside TestConnection, the only
\* receiver the channel ever has; TestConnection then returns, with an error
\* (log.Fatal) or without
CancelRendezvous ==
    /\ Alive
    /\ proc.sigPc = "sendCancel"
    /\ proc.mainPc = "testConnection"
    /\ \E failed \in BOOLEAN :
          proc' = [(IF failed THEN [proc EXCEPT !.mainPc = "fatal"]
                              ELSE AfterTestConnection(proc))
                     EXCEPT !.sigPc = "closeCancel", !.cancelSent = @ + 1]
    /\ UNCHANGED hvars

\* TestConnection returns on its own: connected, or timed out (log.Fatal)
TestConnectionReturns ==
    /\ Alive
    /\ proc.mainPc = "testConnection"
    /\ \E failed \in BOOLEAN :
          proc' = IF failed THEN [proc EXCEPT !.mainPc = "fatal"]
                  ELSE AfterTestConnection(proc)
    /\ UNCHANGED hvars

\* close(testConnCancel)
SigCloseCancel ==
    /\ Alive
    /\ proc.sigPc = "closeCancel"
    /\ proc' = [proc EXCEPT !.sigPc = "sendExit", !.cancelClosed = @ + 1]
    /\ UNCHANGED hvars

\* exitEvent <- evt meets the select of runApiServer (or the worker's
\* Listen), which goes on to shut down
ExitRendezvous ==
    /\ Alive
    /\ proc.sigPc = "sendExit"
    /\ proc.mainPc = "running"
    /\ proc' = [proc EXCEPT !.sigPc = "closeExit", !.exitSent = @ + 1,
                            !.mainPc = "shutdown"]
    /\ UNCHANGED hvars

\* close(exitEvent)
SigCloseExit ==
    /\ Alive
    /\ proc.sigPc = "closeExit"
    /\ proc' = [proc EXCEPT !.sigPc = "end", !.exitClosed = @ + 1]
    /\ UNCHANGED hvars

\* srv.Shutdown(ctx) and the return of runApiServer, or the return of
\* runWorker; main returns with it
Shutdown ==
    /\ proc.mainPc = "shutdown"
    /\ proc' = [proc EXCEPT !.mainPc = "exited"]
    /\ UNCHANGED hvars

\* srv.ListenAndServe() returns (it failed to bind, or the server was closed)
ListenReturns ==
    /\ Alive
    /\ proc.listenPc = "serving"
    /\ proc' = [proc EXCEPT !.listenPc = "returned"]
    /\ UNCHANGED hvars

\* syscallChan <- syscall.SIGTERM, a blocking send on the buffered channel
ListenSendsSigterm ==
    /\ Alive
    /\ proc.listenPc = "returned"
    /\ Len(proc.syscallChan) < SyscallChanCap
    /\ proc' = [proc EXCEPT !.listenPc = "done",
                            !.syscallChan = Append(@, "SIGTERM")]
    /\ UNCHANGED hvars

\* the steps of the process's own threads
MainProgramNext ==
    \/ SigReceive
    \/ CancelRendezvous
    \/ TestConnectionReturns
    \/ SigCloseCancel
    \/ ExitRendezvous
    \/ SigCloseExit
    \/ Shutdown
    \/ ListenSendsSigterm

MainNext ==
    \/ MainProgramNext
    \/ OsSignal
    \/ ListenReturns

MainSpec == MainInit /\ [][MainNext]_vars

\* every thread of the process keeps running while it has a step to take
MainFairSpec ==
    /\ MainInit
    /\ [][MainNext]_vars
    /\ WF_vars(SigReceive) /\ WF_vars(CancelRendezvous)
    /\ WF_vars(TestConnectionReturns) /\ WF_vars(SigCloseCancel)
    /\ WF_vars(ExitRendezvous) /\ WF_vars(SigCloseExit)
    /\ WF_vars(Shutdown) /\ WF_vars(ListenSendsSigterm)

(***************************************************************************)
(* Properties.                                                             *)
(***************************************************************************)
N == Len(corpora)

\* the reply of the worker of corpus list entry i
ReplyAt(i) == replies[waits[i]]

\* all N jobs are published and every worker has answered
AllAnswered ==
    /\ N >= 1
    /\ Len(jobs) = N
    /\ \A i \in 1..N : HasReply(waits[i])

\* C1: no receive on a reply handle happens before the N-th PublishQuery
\* call: once anything has been received, all N jobs are in the queue.
C1_AllPublishedBeforeFirstReceive ==
    recvLog # <<>> => (Len(jobs) = N /\ Len(waits) = N)

\* the first receive has happened for a request over several corpora
C1_Witness == Len(recvLog) = 1 /\ N >= 2 /\ Len(jobs) = N

\* C2: the i-th job published is the job for corpora[i], the i-th handle
\* received from is the handle of corpora[i], and so the receives follow the
\* corpus-list order whatever order the workers answer in.
C2_PublishAndReceiveInListOrder ==
    /\ Len(jobs) <= N
    /\ \A i \in 1..Len(jobs) : jobs[i].rsc = corpora[i]
    /\ \A i \in 1..Len(recvLog) :
          /\ recvLog[i] = waits[i]
          /\ jobs[recvLog[i]].rsc = corpora[i]

\* two receives have happened although a worker of higher index answered
\* before one of lower index
C2_Witness == Len(recvLog) >= 2 /\ outOfOrder

\* the page a selector yields when drained up to the page size
RECURSIVE Drain(_, _)
Drain(sel, rows) ==
    IF Len(rows) < maximumRecords /\ RRNext(sel).ok
    THEN LET nxt == RRNext(sel).sel
         IN Drain(nxt, Append(rows, [Position |-> Len(rows) + 1,
                                     PID |-> CurrRscName(nxt),
                                     line |-> CurrLine(nxt)]))
    ELSE rows

Response(st, diags, rows) ==
    [status |-> st, diagnostics |-> diags, results |-> rows]

\* the response as a function of the corpora list, the page size and the
\* reply contents alone: the replies taken in corpus-list order
RECURSIVE SequentialOutcome(_, _)
SequentialOutcome(i, sel) ==
    IF i > N
    THEN IF AllHasOutOfRangeError(sel)
         THEN Response(ConformantUnprocessableEntity,
                       <<FCSError("DCFirstRecordPosOutOfRange", GetFirstError(sel))>>,
                       <<>>)
         ELSE Response(StatusOK, <<>>, Drain(sel, <<>>))
    ELSE IF ~HasReply(waits[i])
    THEN Response(0, <<>>, <<>>)
    ELSE IF DeserializeFails(ReplyAt(i))
    THEN Response(StatusInternalServerError,
                  <<FCSError("DCGeneralSystemError", ErrDeserialize)>>, <<>>)
    ELSE IF ReplyAt(i).err # "" /\ ReplyAt(i).err # ErrRowsRangeOutOfConc
    THEN Response(StatusInternalServerError,
                  <<FCSError("DCQueryCannotProcess", ReplyAt(i).err)>>, <<>>)
    ELSE SequentialOutcome(i + 1,
            SetRscLines(IF ReplyAt(i).err # ""
                        THEN RscSetErrorAt(sel, i, ReplyAt(i).err) ELSE sel,
                        corpora[i], ReplyAt(i).lines))

\* C3: the response of a request that reached the collection of the replies
\* (status, diagnostics and the emitted rows with their pid) is a function of
\* the corpora list, the page size and the reply contents: it is the same
\* under every interleaving of the workers' answers.
C3_OutcomeIndependentOfArrivalOrder ==
    (pc = "done" /\ recvLog # <<>>) =>
        Response(status, diagnostics, results)
            = SequentialOutcome(1, NewRoundRobinLineSel(maximumRecords, corpora))

\* a page of several rows was returned although the workers answered out of
\* corpus-list order
C3_Witness ==
    pc = "done" /\ outOfOrder /\ status = StatusOK /\ Len(results) >= 2 /\ N >= 2

\* every corpus answered with rows or with the out-of-range error, and at
\* least one answered with rows
C4_Pre ==
    /\ AllAnswered
    /\ \A i \in 1..N :
          /\ ReplyAt(i).kind = "result"
          /\ ReplyAt(i).err \in {"", ErrRowsRangeOutOfConc}
    /\ \E i \in 1..N : ReplyAt(i).err = ""

\* C4: if at least one corpus answers without an application error and every
\* other corpus answers out-of-range, the request is not aborted: all replies
\* are collected, the status is 200, and every emitted row comes from a
\* corpus that answered without error.
C4_OutOfRangeIsQuarantined ==
    C4_Pre =>
        /\ status \in {0, StatusOK}
        /\ diagnostics = <<>>
        /\ pc = "done" => (status = StatusOK /\ Len(recvLog) = N)
        /\ \A j \in 1..Len(results) :
              \E i \in 1..N :
                 /\ corpora[i] = results[j].PID
                 /\ results[j].line.rsc = corpora[i]
                 /\ ReplyAt(i).err = ""

\* a 200 response with rows of one corpus while another was out of range
C4_Witness ==
    /\ C4_Pre
    /\ pc = "done"
    /\ results # <<>>
    /\ \E i \in 1..N : ReplyAt(i).err = ErrRowsRangeOutOfConc

\* every one of the N corpora answered out-of-range
C5_AllOutOfRange ==
    /\ AllAnswered
    /\ \A i \in 1..N :
          ReplyAt(i).kind = "result" /\ ReplyAt(i).err = ErrRowsRangeOutOfConc

\* C5: if every selected corpus answers out-of-range the response is 422 with
\* exactly the diagnostic DCFirstRecordPosOutOfRange and no records, and that
\* diagnostic is produced in no other case.
C5_AllOutOfRangeIs422 ==
    /\ (pc = "done" /\ C5_AllOutOfRange) =>
          /\ status = ConformantUnprocessableEntity
          /\ Len(diagnostics) = 1
          /\ diagnostics[1].code = "DCFirstRecordPosOutOfRange"
          /\ results = <<>>
    /\ (\E k \in 1..Len(diagnostics) :
            diagnostics[k].code = "DCFirstRecordPosOutOfRange") => C5_AllOutOfRange

\* several corpora, all out of range, answered with 422
C5_Witness ==
    /\ pc = "done"
    /\ N >= 2
    /\ C5_AllOutOfRange
    /\ status = ConformantUnprocessableEntity

\* C6: the first reply, in index order, that carries an application error
\* other than the out-of-range sentinel ends the request with HTTP 500 and
\* the diagnostic DCQueryCannotProcess and no records, whatever the other
\* corpora returned.
C6_FatalReplyAborts ==
    \A i \in 1..Len(recvLog) :
        (replies[recvLog[i]].kind = "result"
         /\ replies[recvLog[i]].err \notin {"", ErrRowsRangeOutOfConc}) =>
            /\ i = Len(recvLog)
            /\ pc = "done"
            /\ status = 500
            /\ diagnostics = <<FCSError("DCQueryCannotProcess", replies[recvLog[i]].err)>>
            /\ results = <<>>

\* the second reply was fatal after the first corpus returned rows
C6_Witness ==
    /\ Len(recvLog) = 2
    /\ replies[recvLog[2]].err = ErrWorkerFailure
    /\ Len(replies[recvLog[1]].lines) > 0

\* the handler waits on a reply handle whose worker has not answered
WaitingForReply == pc = "collect" /\ ~HasReply(waits[Len(recvLog) + 1])

\* C7: once the request's deadline has fired while the handler waits on a
\* handle whose worker has not answered, the wait is abandoned and the
\* request returns.
C7_DeadlineEndsTheWait == (deadlineFired /\ WaitingForReply) ~> (pc = "done")

\* the decimal reading of a wire value
WireNumber(raw) == CHOOSE n \in -1..5 : NumStr[n + 2] = raw

\* the 1-based startRecord and the page size the request asks for
WireStartRecord ==
    IF request.startRecord = Absent THEN 1 ELSE WireNumber(request.startRecord)

WirePageSize ==
    IF request.maximumRecords \in {Absent, ""}
    THEN ConfMaximumRecords ELSE WireNumber(request.maximumRecords)

\* C8: at most one job is published per corpus, exactly one once the publish
\* loop is through, and the job for C[i] carries startLine = s - 1 and
\* maxItems = K.
C8_SameWindowForEveryCorpus ==
    /\ Len(jobs) <= N
    /\ pc \in {"collect", "classify", "merge"} => Len(jobs) = N
    /\ \A i \in 1..Len(jobs) :
          jobs[i] = [rsc |-> corpora[i],
                     startLine |-> WireStartRecord - 1,
                     maxItems |-> WirePageSize]

\* all jobs of a request with startRecord 2 over several corpora are published
C8_Witness ==
    /\ pc = "collect"
    /\ N >= 2
    /\ request.startRecord = "2"
    /\ request.maximumRecords = "1"

\* C9: in every state of the merge loop at most K rows are emitted and the
\* pid of every emitted row is one of the request's corpora.
C9_AtMostKRowsFromTheCorpora ==
    /\ Len(results) <= maximumRecords
    /\ \A j \in 1..Len(results) : results[j].PID \in Range(corpora)

\* the page is full while the selector still holds rows
C9_Witness ==
    /\ pc = "merge"
    /\ Len(results) = maximumRecords
    /\ RRNext(fromResource).ok

\* C10: the j-th emitted record has Position j, so positions are
\* consecutive from 1 and never exceed K, and the pid of a record is the
\* corpus the selector's most recent Next() selected.
C10_PositionsAndPid ==
    /\ \A j \in 1..Len(results) :
          results[j].Position = j /\ results[j].Position <= maximumRecords
    /\ results # <<>> =>
          /\ fromResource.curr \in 1..N
          /\ results[Len(results)].PID = corpora[fromResource.curr]
          /\ results[Len(results)].line
                = Line(corpora[fromResource.curr],
                       fromResource.items[fromResource.curr].idx)

\* a 200 response of two records drawn from two corpora
C10_Witness ==
    /\ pc = "done"
    /\ status = StatusOK
    /\ Len(results) >= 2
    /\ results[1].PID # results[2].PID

\* every worker answered with at least K rows
C11_AllHaveK ==
    /\ N >= 1
    /\ \A i \in 1..N : Len(ReplyAt(i).lines) >= maximumRecords

\* C11: when each of the N corpora holds at least K rows, the j-th row
\* emitted (0-based) is row floor(j/N) of corpus[j mod N], so the first row
\* comes from corpus[0], and the finished drain has emitted exactly K rows.
C11_FullCorporaInterleave ==
    C11_AllHaveK =>
        /\ \A j \in 0..(Len(results) - 1) :
              /\ results[j + 1].PID = corpora[(j % N) + 1]
              /\ results[j + 1].line = Line(corpora[(j % N) + 1], (j \div N) + 1)
        /\ (pc = "done" => Len(results) = maximumRecords)

\* a finished drain of three rows over two corpora of three rows each: the
\* third row is the second row of the first corpus
C11_Witness ==
    /\ pc = "done"
    /\ C11_AllHaveK
    /\ N = 2
    /\ maximumRecords = 3
    /\ Len(results) = 3

\* corpus number i (0-based) still has a row to give
C12_Live(sel, i) == sel.items[i + 1].idx < Len(sel.items[i + 1].lines)

\* one Next() that returned true, as the merge loop sees it: the selector
\* before and after, and the row appended from it
C12_NextStep ==
    Len(results') = Len(results) + 1 =>
        LET sel == fromResource
            after == fromResource'
            found == after.curr - 1
            dist == (found - sel.g + N) % N
        IN /\ found \in 0..(N - 1)
           /\ C12_Live(sel, found)
           /\ \A d \in 0..(N - 1) : d < dist => ~C12_Live(sel, (sel.g + d) % N)
           /\ after.g = (found + 1) % N
           /\ after.items[found + 1].idx = sel.items[found + 1].idx + 1
           /\ after.items[found + 1].lines = sel.items[found + 1].lines
           /\ \A i \in 1..N : i # found + 1 => after.items[i] = sel.items[i]
           /\ results'[Len(results')].PID = corpora[found + 1]
           /\ results'[Len(results')].line =
                  sel.items[found + 1].lines[sel.items[found + 1].idx + 1]

\* corpora [a, b], a answered with 1 row, b with 3 rows, and K = 4
C12_Scenario ==
    /\ N = 2
    /\ maximumRecords = 4
    /\ ReplyAt(1).err = "" /\ Len(ReplyAt(1).lines) = 1
    /\ ReplyAt(2).err = "" /\ Len(ReplyAt(2).lines) = 3

\* C12: each Next() that returns true selects the first corpus, scanning
\* cyclically from the cursor g, that still has a row, sets g to
\* (found+1) mod N and advances only that corpus's row index, skipping the
\* exhausted corpora; with a holding 1 row, b holding 3 rows and K = 4 the
\* emission is a1, b1, b2, b3.
C12_NextScansFromTheCursor ==
    /\ [][C12_NextStep]_vars
    /\ []((pc = "done" /\ C12_Scenario) =>
            [j \in 1..Len(results) |-> results[j].line] =
                <<Line(corpora[1], 1), Line(corpora[2], 1),
                  Line(corpora[2], 2), Line(corpora[2], 3)>>)

\* the scenario drained to its end
C12_Witness == pc = "done" /\ C12_Scenario /\ Len(results) = 4

\* the number of rows held by the first i corpora of the selector
RECURSIVE C13_Rows(_, _)
C13_Rows(sel, i) ==
    IF i = 0 THEN 0 ELSE Len(sel.items[i].lines) + C13_Rows(sel, i - 1)

C13_TotalRows == C13_Rows(fromResource, N)

C13_Min(a, b) == IF a <= b THEN a ELSE b

\* every corpus's row index is at the end of its row list
C13_AllAtEnd ==
    \A i \in 1..N : fromResource.items[i].idx = Len(fromResource.items[i].lines)

\* C13: Next() returns false exactly when every corpus's row index is at the
\* end of its row list; the drain loop terminates, stopping once the output
\* holds K rows or Next() has returned false, and by then it has emitted
\* min(K, total number of rows held by the selector) rows.
C13_DrainTerminates ==
    /\ <>(pc = "done")
    /\ [](~RRNext(fromResource).ok <=> C13_AllAtEnd)
    /\ [](pc = "done" =>
            /\ Len(results) = maximumRecords \/ ~RRNext(fromResource).ok
            /\ Len(results) = C13_Min(maximumRecords, C13_TotalRows))

\* a drain over several corpora that ended short of K because Next()
\* returned false
C13_Witness ==
    /\ pc = "done"
    /\ N >= 2
    /\ Len(results) >= 2
    /\ Len(results) < maximumRecords
    /\ C13_AllAtEnd

\* the raw value is the decimal string of an integer
WireIsInteger(raw) == \E i \in 1..Len(NumStr) : NumStr[i] = raw

\* the parameter is missing or an integer >= 1
WirePlain(raw) == raw = Absent \/ (WireIsInteger(raw) /\ WireNumber(raw) >= 1)

\* nothing before the choice of the corpora rejects the request: no unknown
\* key, a query, and paging parameters that are missing or integers >= 1
WireReachesContext ==
    /\ request.extraKeys = {}
    /\ request.query # Absent
    /\ WirePlain(request.startRecord)
    /\ WirePlain(request.maximumRecords)

\* the entries of the x-fcs-context list of the request
WireContext == Split(request.context)

\* C14: when x-fcs-context lists corpora that all exist in the registry, jobs
\* are published for exactly the listed corpora, in the listed order; all the
\* registry's corpora are used only when the parameter is absent.
C14_ContextSelectsTheCorpora ==
    /\ (request.context # Absent
         /\ \A i \in 1..Len(WireContext) : ~GetResourceFails(registry, WireContext[i])) =>
            /\ Len(jobs) <= Len(WireContext)
            /\ \A i \in 1..Len(jobs) : jobs[i].rsc = WireContext[i]
            /\ (pc \in {"collect", "classify", "merge"} => Len(jobs) = Len(WireContext))
    /\ request.context = Absent =>
            /\ Len(jobs) <= Len(registry)
            /\ \A i \in 1..Len(jobs) : jobs[i].rsc = registry[i]
            /\ (pc \in {"collect", "classify", "merge"} => Len(jobs) = Len(registry))

\* C15: when x-fcs-context is supplied and an entry of its list does not
\* resolve in the registry (an empty list included), no job is published and
\* the request ends with HTTP 400 and one diagnostic naming x-fcs-context.
C15_UnknownContextIsRejected ==
    (request.context # Absent
     /\ \E i \in 1..Len(WireContext) : GetResourceFails(registry, WireContext[i])) =>
        /\ jobs = <<>>
        /\ (pc = "done" /\ WireReachesContext) =>
                /\ status = 400
                /\ Len(diagnostics) = 1
                /\ diagnostics[1].ident = SearchRetrArgFCSContext
                /\ results = <<>>

\* the publish loop stands at an entry whose translation fails in the given
\* way, and the handler takes its step
C16_LoopAt(outcome) ==
    /\ pc = "publish"
    /\ translation[corpora[Len(jobs) + 1]] = outcome
    /\ pc' # pc

\* the step the handler takes at an entry whose FCS query does not parse
C16_AbortStep ==
    C16_LoopAt("parse_error") =>
        /\ pc' = "done"
        /\ status' = 422
        /\ diagnostics' = <<FCSError("DCQuerySyntaxError", request.query)>>
        /\ results' = <<>>
        /\ jobs' = jobs

\* C16: when parsing the FCS query fails for the entry of some corpus, the
\* request is aborted at the first such entry with HTTP 422 and the
\* diagnostic DCQuerySyntaxError, no records are returned, and no job is
\* published for that entry or any later one.
C16_ParseErrorAborts ==
    /\ [][C16_AbortStep]_vars
    /\ [](\A f \in 1..N :
            (~GetResourceFails(registry, corpora[f])
             /\ translation[corpora[f]] = "parse_error") =>
                /\ Len(jobs) < f
                /\ results = <<>>)

\* the second entry failed to parse after the job of the first was published
C16_Witness ==
    /\ pc = "done"
    /\ N = 2
    /\ Len(jobs) = 1
    /\ translation[corpora[1]] = "ok"
    /\ translation[corpora[2]] = "parse_error"
    /\ status = 422

\* the request passed validation and the publish loop ended at an entry whose
\* translation had the given outcome
C17_EndedAt(outcome) ==
    /\ pc = "done"
    /\ N >= 1
    /\ \A i \in 1..N : ~GetResourceFails(registry, corpora[i])
    /\ Len(jobs) < N
    /\ translation[corpora[Len(jobs) + 1]] = outcome

\* C17: when Generate() leaves errors for some corpus (the query names an
\* attribute foo the corpus does not have), the request is aborted with HTTP
\* 422 and the diagnostic DCQueryCannotProcess whose ident contains the
\* offending identifier, and no job is published for that corpus.
C17_SemanticErrorNamesTheIdentifier ==
    C17_EndedAt("semantic_error") =>
        /\ status = 422
        /\ Len(diagnostics) = 1
        /\ diagnostics[1].code = "DCQueryCannotProcess"
        /\ Contains(diagnostics[1].ident, OffendingIdentifier)
        /\ results = <<>>
        /\ \A j \in 1..Len(jobs) : jobs[j].rsc # corpora[Len(jobs) + 1]

\* C18: a request whose URL has a key that is not a searchRetrieve parameter
\* ends with HTTP 400 and the single diagnostic DCUnsupportedParameter whose
\* ident is such a key; this is decided before any other parameter is looked
\* at, so it wins over a missing query and over invalid paging values.
C18_UnknownKeyIsRejectedFirst ==
    request.extraKeys # {} =>
        /\ pc \in {"validate", "done"}
        /\ jobs = <<>>
        /\ startRecord = 0 /\ maximumRecords = 0 /\ corpora = <<>>
        /\ pc = "done" =>
              /\ status = 400
              /\ Len(diagnostics) = 1
              /\ diagnostics[1].code = "DCUnsupportedParameter"
              /\ diagnostics[1].ident \in request.extraKeys
              /\ results = <<>>

\* a request with unknown keys, no query and a startRecord that is no number
C18_Witness ==
    /\ pc = "done"
    /\ request.extraKeys = {"bogus", "junk"}
    /\ request.query = Absent
    /\ request.startRecord = "abc"
    /\ diagnostics[1].ident = "junk"

\* a supplied paging value that is no integer or is < 1
C19_Bad(raw) == raw # Absent /\ (~WireIsInteger(raw) \/ WireNumber(raw) < 1)

\* the request ends with 422 and DCUnsupportedParameterValue naming the
\* parameter, and nothing is published
C19_RejectedFor(name) ==
    /\ pc \in {"validate", "done"}
    /\ jobs = <<>>
    /\ pc = "done" =>
          /\ status = 422
          /\ diagnostics = <<FCSError("DCUnsupportedParameterValue", name)>>
          /\ results = <<>>

\* C19: each paging parameter must be an integer >= 1.  startRecord defaults
\* to 1 and maximumRecords to the configured value when absent; a supplied
\* value that is no integer or is < 1 ends the request with HTTP 422 and
\* DCUnsupportedParameterValue naming the parameter; every published job has
\* startLine >= 0 and maxItems >= 1.
C19_PagingParametersChecked ==
    /\ \A j \in 1..Len(jobs) : jobs[j].startLine >= 0 /\ jobs[j].maxItems >= 1
    /\ (request.extraKeys = {} /\ request.query # Absent) =>
          IF C19_Bad(request.startRecord) THEN C19_RejectedFor(SearchRetrStartRecord)
          ELSE IF C19_Bad(request.maximumRecords)
          THEN C19_RejectedFor(SearchMaximumRecords)
          ELSE pc # "validate" =>
                  /\ startRecord = WireStartRecord
                  /\ maximumRecords =
                        IF request.maximumRecords = Absent
                        THEN ConfMaximumRecords
                        ELSE WireNumber(request.maximumRecords)

\* the sum of the first i result-set sizes
RECURSIVE C20_Sum(_, _)
C20_Sum(size, i) == IF i = 0 THEN 0 ELSE size[i] + C20_Sum(size, i - 1)

\* the request is through, every worker has answered, the corpora's result
\* sets have the given sizes, startRecord lies past their sum, and each
\* worker asked to start past the end of its result set answered out-of-range
C20_PastTheEnd(size) ==
    /\ pc = "done"
    /\ AllAnswered
    /\ WireStartRecord > C20_Sum(size, N)
    /\ \A i \in 1..N :
          jobs[i].startLine >= size[i] =>
              ReplyAt(i).kind = "result" /\ ReplyAt(i).err = ErrRowsRangeOutOfConc

\* C20: for a valid request whose startRecord is greater than the sum of the
\* result-set sizes of all the selected corpora, each worker answering
\* out-of-range when asked to start past the end of its own result set, the
\* response is the diagnostic DCFirstRecordPosOutOfRange with no records.
C20_StartPastAllResults ==
    \A size \in [1..N -> 0..MaxRows] :
        C20_PastTheEnd(size) =>
            /\ status = 422
            /\ Len(diagnostics) = 1
            /\ diagnostics[1].code = "DCFirstRecordPosOutOfRange"
            /\ results = <<>>

\* startRecord = 2 over two corpora of which one holds a single row
C20_Witness ==
    /\ N = 2
    /\ request.startRecord = "2"
    /\ C20_PastTheEnd([i \in 1..N |-> IF i = 1 THEN 1 ELSE 0])

\* the error of the lowest-index corpus whose worker answered with one
C21_LowestError ==
    LET withErr == {i \in 1..N : ReplyAt(i).err # ""}
    IN IF withErr = {} THEN ""
       ELSE ReplyAt(CHOOSE i \in withErr : \A m \in withErr : i <= m).err

\* the orders in which the errors of N replies can be recorded
C21_Orders == {o \in [1..N -> 1..N] : \A i, j \in 1..N : i # j => o[i] # o[j]}

\* the selector after the errors of the first k replies of an order are
\* recorded with RscSetErrorAt
RECURSIVE C21_Record(_, _, _)
C21_Record(sel, order, k) ==
    IF k = 0 THEN sel
    ELSE LET before == C21_Record(sel, order, k - 1)
             e == ReplyAt(order[k]).err
         IN IF e = "" THEN before ELSE RscSetErrorAt(before, order[k], e)

\* the collect loop ran through all N replies and the classification after it
\* ended the request with an error
C21_ClassifiedAsError ==
    /\ pc = "done"
    /\ AllAnswered
    /\ Len(recvLog) = N
    /\ \A i \in 1..N : ReplyAt(i).kind = "result"
                        /\ ReplyAt(i).err \in {"", ErrRowsRangeOutOfConc}
    /\ status # 200

\* C21: when the classification after the collect loop reports an error, the
\* diagnostic's ident is the error of the lowest-index corpus that has one;
\* GetFirstError() returns the error recorded for the smallest index,
\* whatever the order in which the errors were recorded.
C21_IdentIsLowestIndexError ==
    /\ AllAnswered =>
          \A order \in C21_Orders :
              GetFirstError(C21_Record(NewRoundRobinLineSel(maximumRecords, corpora),
                                       order, N)) = C21_LowestError
    /\ C21_ClassifiedAsError =>
          /\ Len(diagnostics) = 1
          /\ diagnostics[1].ident = C21_LowestError

\* an error reported by the classification over several corpora whose
\* workers answered out of index order
C21_Witness == C21_ClassifiedAsError /\ N >= 2 /\ outOfOrder

\* C22: whenever searchRetrieve has returned, every reply handle it obtained
\* from PublishQuery has been received from exactly once: no published job
\* is left with a reply that is never awaited.
C22_EveryHandleReceivedOnce ==
    pc = "done" =>
        /\ \A i \in 1..Len(waits) :
              Cardinality({k \in 1..Len(recvLog) : recvLog[k] = waits[i]}) = 1
        /\ Len(recvLog) = Len(waits)

\* the codes of the diagnostics that only parameter validation adds
C23_ValidationCodes ==
    {"DCUnsupportedParameter", "DCMandatoryParameterNotSupplied",
     "DCUnsupportedParameterValue"}

\* the request has an unknown key, no query, or a startRecord or a non-empty
\* maximumRecords that is no integer >= 1
C23_WireInvalid ==
    \/ request.extraKeys # {}
    \/ request.query = Absent
    \/ C19_Bad(request.startRecord)
    \/ (request.maximumRecords # "" /\ C19_Bad(request.maximumRecords))

\* the queue and the result list are as they were when the handler started
C23_Untouched ==
    /\ jobs = <<>>
    /\ waits = <<>>
    /\ replies = <<>>
    /\ results = <<>>

\* C23: parameter validation has no effect on the queue: a request that
\* fails it never leaves validation by any other way than a return, and
\* whenever searchRetrieve has returned from a validation failure (unknown
\* parameter, missing query, invalid paging value, unknown or empty context)
\* no job has been published and the result list is untouched.
C23_ValidationPublishesNothing ==
    /\ C23_WireInvalid => (pc \in {"validate", "done"} /\ C23_Untouched)
    /\ (pc = "done" /\ Len(diagnostics) >= 1
         /\ diagnostics[1].code \in C23_ValidationCodes) => C23_Untouched

\* a request over a context that is not in the registry, rejected
C23_Witness ==
    /\ pc = "done"
    /\ Len(diagnostics) = 1
    /\ diagnostics[1].ident = SearchRetrArgFCSContext
    /\ Len(registry) >= 1
    /\ C23_Untouched

\* C24: on every return of searchRetrieve the status and the diagnostics
\* agree: the status is 200 exactly when no diagnostic was added, and a return
\* with another status has added exactly one diagnostic and leaves the
\* response without records.
C24_StatusMatchesDiagnostics ==
    pc = "done" =>
        /\ status = 200 <=> diagnostics = <<>>
        /\ status # 200 => (Len(diagnostics) = 1 /\ results = <<>>)
        /\ status \in {200, 400, 422, 500}

\* a request that failed on the reply of its second corpus after the first
\* corpus had returned rows
C24_Witness ==
    /\ pc = "done"
    /\ status = 500
    /\ Len(recvLog) = 2
    /\ Len(replies[recvLog[1]].lines) > 0
    /\ Len(diagnostics) = 1

\* the positions of the merged page that hold rows of corpus number i
C25_Of(i) == {p \in 1..Len(results) : results[p].PID = corpora[i]}

\* the number of rows of corpus number i among the first p rows of the page
C25_Count(i, p) == Cardinality({q \in C25_Of(i) : q <= p})

\* the rows of corpus i appear in the order of its reply, as a prefix of it
C25_Prefix(i) ==
    \A p \in C25_Of(i) :
        /\ C25_Count(i, p) <= Len(ReplyAt(i).lines)
        /\ results[p].line = ReplyAt(i).lines[C25_Count(i, p)]

\* between two consecutive rows of corpus i, at positions p < q, every other
\* corpus is drawn once if it still had a row after position p, and not at
\* all otherwise
C25_FairBetween(i) ==
    \A p, q \in C25_Of(i) :
        (p < q /\ C25_Count(i, q) = C25_Count(i, p) + 1) =>
            \A d \in 1..N : d # i =>
                C25_Count(d, q) - C25_Count(d, p) =
                    IF C25_Count(d, p) < Len(ReplyAt(d).lines) THEN 1 ELSE 0

\* C25: in every merged page the rows of one corpus appear in the order of
\* that corpus's reply, as a prefix of it (no row twice, none skipped), and
\* between two consecutive rows of the same corpus every other corpus that
\* still has rows is drawn exactly once.
C25_PerCorpusOrderKept ==
    \A i \in 1..N : C25_Prefix(i) /\ C25_FairBetween(i)

\* a page of four rows over three corpora of which the first is exhausted
\* after one row
C25_Witness ==
    /\ pc = "done"
    /\ N = 3
    /\ Len(results) = 4
    /\ Len(ReplyAt(1).lines) = 1
    /\ Len(ReplyAt(2).lines) >= 2
    /\ Len(ReplyAt(3).lines) >= 1

\* a value has arrived on syscallChan
C26_SignalArrived == proc.syscallChan # <<>> \/ proc.sigPc # "recv"

\* the event was delivered on exitEvent, or the process has ended
C26_Delivered == proc.exitSent >= 1 \/ ~Alive

\* C26: whenever a value arrives on syscallChan, also after TestConnection
\* has returned, the signal goroutine eventually delivers the event on
\* exitEvent (or the process has ended meanwhile), so it never stays
\* blocked on testConnCancel.
C26_SignalLeadsToShutdown == C26_SignalArrived ~> C26_Delivered

====
